---- MODULE Spec2Model ----
(***************************************************************************)
(* The segmentation session engine of src/web_app/index.js: the module     *)
(* level state variables, the event handlers and the async functions       *)
(* decode(), encode(), loadFromAviUtl2() and loadCurrentModelIfNeeded().    *)
(*                                                                         *)
(* JavaScript runs the handlers on one thread: a handler, or the part of   *)
(* an async function between two awaits, is one atomic action.  An await   *)
(* of an external call (inference, fetch, file read) suspends the function *)
(* as a task; the call later resolves or rejects, in any order relative    *)
(* to the other tasks and to the user's events.                            *)
(***************************************************************************)
EXTENDS Integers, Sequences, FiniteSets

(* ------------------------------ bounds -------------------------------- *)
\* user events in one run: clicks, pointer events, file choices, model changes
MaxEvents == 4

\* the longest list of scores the mask scan is given
MaxMasks == 3
\* the scores are 0..MaxScore
MaxScore == 3
\* the most pixels of a canvas the cut loop is given
MaxPixels == 2

(* ----------------------------- constants ------------------------------ *)
\* null for imageInput / imageProcessed / imageEmbeddings; a loaded image is
\* named by the number (1, 2, ...) of the encode() call that loaded it
NoImage == 0
\* null for lastPoints: a value that is no list of points
NullPoints == <<[position |-> 0, label |-> 0]>>
\* null for model / processor
NoModel == "null"
\* the values the model select takes here: two of the three keys of MODEL_IDS
ModelKeys == {"slimsam", "sam_vit_base"}
\* cursor positions getPoint() can return (normalised, abstracted to two places)
Positions == {1, 2}
\* e.button: 0 left, 1 middle, 2 right
Buttons == {0, 1, 2}
\* the transparent overlay (after clearRect)
ClearOverlay == [points |-> <<>>, image |-> NoImage, sizes |-> NoImage, age |-> "new"]

VARIABLES
  isEncoding, isDecoding, decodePending, lastPoints, isMultiMaskMode,
  imageInput, imageProcessed, imageEmbeddings,
  currentModelKey, model, modelCache,
  status, cutDisabled, uploadVisible, uiEnabled, aviDisabled,
  overlay,
  decodeTasks, encodeTasks, aviTask, fileReads,
  exportTasks,
  nLoads, events, budget,
  lastRequested, lastRendered, cleanSession, clearActive, folded,
  scores, bestIndex, scanIndex,
  maskPixelData, imagePixelData, overlayPixelData, pixelIndex

flags == <<isEncoding, isDecoding, decodePending>>
points == <<lastPoints, isMultiMaskMode>>
images == <<imageInput, imageProcessed, imageEmbeddings>>
models == <<currentModelKey, model, modelCache>>
ui == <<status, cutDisabled, uploadVisible, uiEnabled, aviDisabled>>
tasks == <<decodeTasks, encodeTasks, aviTask, fileReads>>
counters == <<nLoads, events, budget>>
history == <<lastRequested, lastRendered, cleanSession, clearActive, folded>>
\* the session engine's state
session == <<flags, points, images, models, ui, overlay, tasks, exportTasks,
             counters, history>>
\* the scan of updateMaskOverlay() for the best mask (lines 136-142)
select == <<scores, bestIndex, scanIndex>>
\* the pixel loop of the cut handler (lines 366-378); overlayPixelData is the
\* overlay as getImageData() returned it, before the loop wrote into it
cut == <<maskPixelData, imagePixelData, overlayPixelData, pixelIndex>>
\* the two loops, studied on their own inputs below
pure == <<select, cut>>
vars == <<session, pure>>

\* History of the session, kept for the statements below:
\*   lastRequested  lastPoints at the last call of decode() by a handler
\*   lastRendered   the points of the last mask updateMaskOverlay() drew
\*   cleanSession   no decode call was in flight when the session began
\*   clearActive    the points were cleared and no decode requested since
\*                  then has drawn its mask
\*   folded         a decode() request of this session met isDecoding and
\*                  was folded into decodePending
\* the first two are NullPoints, the last FALSE, when a session begins.

(* ----------------------------- session -------------------------------- *)
\* the session state a load failure must leave alone: source image, processed
\* image, embedding, point list, multi-point mode, overlay, export enablement
SessionState ==
  <<imageInput, imageProcessed, imageEmbeddings, lastPoints, isMultiMaskMode,
    overlay, cutDisabled>>

NoSnapshot == <<NoImage, NoImage, NoImage, NullPoints, FALSE, ClearOverlay, TRUE>>

\* loadFromAviUtl2() is not running.  A running call keeps its stage, the
\* session state at the click (before) and the counts of user events and of
\* image loads right after it (at)
IdleAvi == [stage |-> "idle", before |-> NoSnapshot, at |-> <<0, 0>>]

\* a user event: one more of the budget of the run
UserEvent == events < budget /\ events' = events + 1 /\ budget' = budget

(* ------------------------------ decode() ------------------------------ *)
\* the labels the other way round
getPoint_LabelsSwapped(button, pos) ==
  [position |-> pos, label |-> IF button = 2 THEN 1 ELSE 0]

\* getPoint(e): the cursor position and the label of the button
getPoint(button, pos) == [position |-> pos, label |-> IF button = 2 THEN 0 ELSE 1]

\* the handlers without their guard
HasEmbedding_NoGuard == TRUE

\* the guard of the click and hover handlers: if (!imageEmbeddings) return
HasEmbedding == imageEmbeddings # NoImage

\* lines 87-95 throw a TypeError when imageProcessed or lastPoints is null,
\* line 98 when model is null: the async function rejects, past line 84
PrepareThrows(pts) ==
  imageProcessed = NoImage \/ pts = NullPoints \/ model = NoModel

\* a name for a new call: the least not borne by a call in flight
FreshCall(dts) ==
  CHOOSE i \in 1..(Cardinality(dts) + 1) : \A t \in dts : t.call # i

\* the inference call of lines 98-102, suspended at its await.  age tells
\* when it was requested: "new" since the last clear, "cleared" before it,
\* "stale" before the last resetImageState()
DecodeTask(pts, dts) ==
  [call |-> FreshCall(dts), stage |-> "model", points |-> pts,
   image |-> imageEmbeddings, sizes |-> imageProcessed, age |-> "new"]

\* decode(), called with isDecoding = dec, decodePending = pend, lastPoints = pts
\* and the calls in flight dts: up to its first await
decode(dec, pend, pts, dts) ==
  IF dec
  THEN /\ isDecoding' = TRUE
       /\ decodePending' = TRUE
       /\ decodeTasks' = dts
  ELSE /\ isDecoding' = TRUE
       /\ decodePending' = pend
       /\ decodeTasks' = IF PrepareThrows(pts) THEN dts ELSE dts \cup {DecodeTask(pts, dts)}

(* --------------------------- initial state ---------------------------- *)
\* modelCache[key]: "none" before the first load of key, "loading" while the
\* promises of lines 64-68 are pending, then "ready"
NoCache == [k \in ModelKeys |-> "none"]

\* The module has run to its top-level await (line 412): the listeners are
\* attached, loadCurrentModelIfNeeded() is suspended at line 72 and the page
\* still has its controls disabled (they are enabled at lines 416-419).
\* b is the run's budget of user events.
Start(b) ==
  /\ isEncoding = FALSE /\ isDecoding = FALSE /\ decodePending = FALSE
  /\ lastPoints = NullPoints /\ isMultiMaskMode = FALSE
  /\ imageInput = NoImage /\ imageProcessed = NoImage /\ imageEmbeddings = NoImage
  /\ currentModelKey = "slimsam" /\ model = NoModel
  /\ modelCache = [NoCache EXCEPT !["slimsam"] = "loading"]
  /\ status = "Loading model..."
  /\ cutDisabled = TRUE /\ uploadVisible = TRUE /\ uiEnabled = FALSE /\ aviDisabled = TRUE
  /\ overlay = ClearOverlay
  /\ decodeTasks = {} /\ encodeTasks = {} /\ aviTask = IdleAvi /\ fileReads = 0
  /\ exportTasks = {}
  /\ nLoads = 0 /\ events = 0 /\ budget = b
  /\ lastRequested = NullPoints /\ lastRendered = NullPoints
  /\ cleanSession = TRUE /\ clearActive = FALSE /\ folded = FALSE

\* no loop is being followed
NoLoops ==
  /\ scores = <<>> /\ bestIndex = 0 /\ scanIndex = 0
  /\ maskPixelData = <<>> /\ imagePixelData = <<>> /\ overlayPixelData = <<>>
  /\ pixelIndex = 0

Init == Start(MaxEvents) /\ NoLoops

(* --------------------- clearPointsAndMask, reset ---------------------- *)
\* the calls in flight at a clear were requested before it
MarkCleared(dts) ==
  {[t EXCEPT !.age = IF t.age = "new" THEN "cleared" ELSE t.age] : t \in dts}

\* the calls in flight at a reset belong to the session it ends
MarkStale(dts) == {[t EXCEPT !.age = "stale"] : t \in dts}

\* clearPointsAndMask(): the clear button's handler
clearPointsAndMask ==
  /\ UserEvent
  /\ isMultiMaskMode' = FALSE
  /\ lastPoints' = NullPoints
  /\ cutDisabled' = TRUE
  /\ overlay' = ClearOverlay
  /\ decodeTasks' = MarkCleared(decodeTasks)
  /\ clearActive' = TRUE
  /\ UNCHANGED <<flags, images, models, status, uploadVisible, uiEnabled, aviDisabled,
                 encodeTasks, aviTask, fileReads, nLoads,
                 lastRequested, lastRendered, cleanSession, folded>>
  /\ UNCHANGED <<exportTasks, pure>>

\* resetImageState(), leaving the status text st behind (its callers overwrite
\* "Ready" in the same handler); a new session begins
resetImageState(st) ==
  /\ imageInput' = NoImage /\ imageProcessed' = NoImage /\ imageEmbeddings' = NoImage
  /\ isEncoding' = FALSE /\ isDecoding' = FALSE /\ decodePending' = FALSE
  /\ isMultiMaskMode' = FALSE /\ lastPoints' = NullPoints
  /\ cutDisabled' = TRUE /\ overlay' = ClearOverlay
  /\ uploadVisible' = TRUE
  /\ status' = st
  /\ decodeTasks' = MarkStale(decodeTasks)
  /\ lastRequested' = NullPoints /\ lastRendered' = NullPoints
  /\ cleanSession' = (decodeTasks = {})
  /\ clearActive' = TRUE
  /\ folded' = FALSE

\* the reset button's handler
ResetClick ==
  /\ UserEvent
  /\ resetImageState("Ready")
  /\ UNCHANGED <<models, uiEnabled, aviDisabled, encodeTasks, aviTask, fileReads, nLoads>>
  /\ UNCHANGED <<exportTasks, pure>>

(* ------------------------- pointer handlers --------------------------- *)
\* mousedown on the image container, with button 0 or 2 and an embedding
MouseDown(button, pos) ==
  LET pts == Append(IF isMultiMaskMode THEN lastPoints ELSE <<>>, getPoint(button, pos))
  IN /\ UserEvent
     /\ button \in {0, 2}
     /\ HasEmbedding
     /\ lastPoints' = pts
     /\ isMultiMaskMode' = TRUE
     /\ cutDisabled' = IF isMultiMaskMode THEN cutDisabled ELSE FALSE
     /\ decode(isDecoding, decodePending, pts, decodeTasks)
     /\ lastRequested' = pts
     /\ folded' = (folded \/ isDecoding)
     /\ UNCHANGED <<isEncoding, images, models, status, uploadVisible, uiEnabled,
                    aviDisabled, overlay, encodeTasks, aviTask, fileReads,
                    nLoads, lastRendered, cleanSession, clearActive>>
     /\ UNCHANGED <<exportTasks, pure>>

\* mousemove on the image container, with an embedding and outside multi-point mode
MouseMove(pos) ==
  LET pts == <<getPoint(0, pos)>>
  IN /\ UserEvent
     /\ HasEmbedding
     /\ ~isMultiMaskMode
     /\ lastPoints' = pts
     /\ decode(isDecoding, decodePending, pts, decodeTasks)
     /\ lastRequested' = pts
     /\ folded' = (folded \/ isDecoding)
     /\ UNCHANGED <<isEncoding, isMultiMaskMode, images, models, ui, overlay,
                    encodeTasks, aviTask, fileReads,
                    nLoads, lastRendered, cleanSession, clearActive>>
     /\ UNCHANGED <<exportTasks, pure>>

(* ------------------ decode(): after its awaits ------------------------ *)
\* model(...) resolved (line 98): lines 105-109 read imageProcessed again and
\* throw a TypeError when a reset has nulled it
DecodeModelDone(t) ==
  /\ t \in decodeTasks /\ t.stage = "model"
  /\ decodeTasks' =
       IF imageProcessed = NoImage
       THEN decodeTasks \ {t}
       ELSE (decodeTasks \ {t}) \cup {[t EXCEPT !.stage = "post", !.sizes = imageProcessed]}
  /\ UNCHANGED <<flags, points, images, models, ui, overlay,
                 encodeTasks, aviTask, fileReads, counters, history>>
  /\ UNCHANGED <<exportTasks, pure>>

\* model(...) rejected: decode() rejects at line 98, nothing catches it
DecodeModelFail(t) ==
  /\ t \in decodeTasks /\ t.stage = "model"
  /\ decodeTasks' = decodeTasks \ {t}
  /\ UNCHANGED <<flags, points, images, models, ui, overlay,
                 encodeTasks, aviTask, fileReads, counters, history>>
  /\ UNCHANGED <<exportTasks, pure>>

\* post_process_masks(...) rejected: decode() rejects at line 105
DecodePostFail(t) ==
  /\ t \in decodeTasks /\ t.stage = "post"
  /\ decodeTasks' = decodeTasks \ {t}
  /\ UNCHANGED <<flags, points, images, models, ui, overlay,
                 encodeTasks, aviTask, fileReads, counters, history>>
  /\ UNCHANGED <<exportTasks, pure>>

\* the rerun dispatched with the points of the call that just ended
RerunPoints_OfEndedCall(t) == t.points

\* the point list the rerun of line 118 dispatches with: lastPoints, read by
\* the new call at line 88
RerunPoints(t) == lastPoints

\* updateMaskOverlay(): the canvas shows the mask of call t
Rendered(t) ==
  [points |-> t.points, image |-> t.image, sizes |-> t.sizes, age |-> t.age]

\* post_process_masks(...) resolved: lines 111-119
DecodePostDone(t) ==
  /\ t \in decodeTasks /\ t.stage = "post"
  /\ overlay' = Rendered(t)
  /\ status' = "Segment score"
  /\ IF decodePending
     THEN decode(FALSE, FALSE, RerunPoints(t), decodeTasks \ {t})
     ELSE /\ isDecoding' = FALSE
          /\ decodePending' = FALSE
          /\ decodeTasks' = decodeTasks \ {t}
  /\ lastRendered' = t.points
  /\ clearActive' = IF t.age = "new" THEN FALSE ELSE clearActive
  /\ UNCHANGED <<isEncoding, points, images, models, cutDisabled, uploadVisible,
                 uiEnabled, aviDisabled, encodeTasks, aviTask, fileReads,
                 counters, lastRequested, cleanSession, folded>>
  /\ UNCHANGED <<exportTasks, pure>>

(* ------------------------------ encode() ------------------------------ *)
\* RawImage.fromURL(url), suspended at line 207, for the caller who
EncodeTask(who) == [load |-> nLoads + 1, stage |-> "fromURL", caller |-> who]

\* encode(url) up to its first await, called by who; a call while isEncoding
\* returns at line 203
encode(who) ==
  IF isEncoding
  THEN UNCHANGED <<isEncoding, status, encodeTasks, nLoads>>
  ELSE /\ isEncoding' = TRUE
       /\ status' = "Extracting image embedding..."
       /\ encodeTasks' = encodeTasks \cup {EncodeTask(who)}
       /\ nLoads' = nLoads + 1

\* RawImage.fromURL resolved: lines 207-215, up to the await of processor(...)
EncodeFromURLDone(e) ==
  /\ e \in encodeTasks /\ e.stage = "fromURL"
  /\ imageInput' = e.load
  /\ uploadVisible' = FALSE
  /\ cutDisabled' = TRUE
  /\ encodeTasks' = (encodeTasks \ {e}) \cup {[e EXCEPT !.stage = "processor"]}
  /\ UNCHANGED <<flags, points, imageProcessed, imageEmbeddings, models, status,
                 uiEnabled, aviDisabled, overlay, decodeTasks, aviTask,
                 fileReads, counters, history>>
  /\ UNCHANGED <<exportTasks, pure>>

\* processor(imageInput) resolved: lines 215-216, up to the await of
\* model.get_image_embeddings(...)
EncodeProcessorDone(e) ==
  /\ e \in encodeTasks /\ e.stage = "processor"
  /\ imageProcessed' = e.load
  /\ encodeTasks' = (encodeTasks \ {e}) \cup {[e EXCEPT !.stage = "embed"]}
  /\ UNCHANGED <<flags, points, imageInput, imageEmbeddings, models, ui, overlay,
                 decodeTasks, aviTask, fileReads, counters, history>>
  /\ UNCHANGED <<exportTasks, pure>>

\* loadFromAviUtl2() resumes after its await of encode(): line 247 on success,
\* the catch of lines 248-250 on failure, then the finally of line 252
AviReturns(ok) ==
  /\ status' = IF ok THEN "Ready" ELSE "Failed to load frame from AviUtl2"
  /\ aviDisabled' = FALSE
  /\ aviTask' = IdleAvi

\* get_image_embeddings resolved: lines 216-219; a caller awaiting encode()
\* (loadFromAviUtl2, line 245) resumes
EncodeEmbedDone(e) ==
  /\ e \in encodeTasks /\ e.stage = "embed"
  /\ imageEmbeddings' = e.load
  /\ isEncoding' = FALSE
  /\ encodeTasks' = encodeTasks \ {e}
  /\ IF e.caller = "avi"
     THEN AviReturns(TRUE)
     ELSE status' = "Embedding extracted!" /\ UNCHANGED <<aviDisabled, aviTask>>
  /\ UNCHANGED <<isDecoding, decodePending, points, imageInput, imageProcessed, models,
                 cutDisabled, uploadVisible, uiEnabled, overlay, decodeTasks,
                 fileReads, counters, history>>
  /\ UNCHANGED <<exportTasks, pure>>

\* one of encode()'s three awaited calls rejected: encode() rejects there,
\* with no handler of its own; isEncoding keeps its value
EncodeFail(e) ==
  /\ e \in encodeTasks
  /\ encodeTasks' = encodeTasks \ {e}
  /\ IF e.caller = "avi"
     THEN AviReturns(FALSE)
     ELSE UNCHANGED <<status, aviDisabled, aviTask>>
  /\ UNCHANGED <<flags, points, images, models, cutDisabled, uploadVisible, uiEnabled,
                 overlay, decodeTasks, fileReads, counters, history>>
  /\ UNCHANGED <<exportTasks, pure>>

(* ------------------------ image-load entry points --------------------- *)
\* The example link and the file input sit in the upload button, which
\* encode() hides (line 211) and resetImageState() shows (line 191); both are
\* enabled once the first model load is done (lines 416-418).
ExampleClick ==
  /\ UserEvent
  /\ uiEnabled /\ uploadVisible
  /\ encode("example")
  /\ UNCHANGED <<isDecoding, decodePending, points, images, models, cutDisabled,
                 uploadVisible, uiEnabled, aviDisabled, overlay, decodeTasks, aviTask,
                 fileReads, history>>
  /\ UNCHANGED <<exportTasks, pure>>

\* a file is chosen: reader.readAsDataURL(file) starts (line 266)
FileChange ==
  /\ UserEvent
  /\ uiEnabled /\ uploadVisible
  /\ fileReads' = fileReads + 1
  /\ UNCHANGED <<flags, points, images, models, ui, overlay, decodeTasks, encodeTasks,
                 aviTask, nLoads, history>>
  /\ UNCHANGED <<exportTasks, pure>>

\* reader.onload (line 264): encode(e2.target.result)
FileReadDone ==
  /\ fileReads > 0
  /\ fileReads' = fileReads - 1
  /\ encode("file")
  /\ UNCHANGED <<isDecoding, decodePending, points, images, models, cutDisabled,
                 uploadVisible, uiEnabled, aviDisabled, overlay, decodeTasks, aviTask,
                 events, budget, history>>
  /\ UNCHANGED <<exportTasks, pure>>

(* -------------------------- loadFromAviUtl2() ------------------------- *)
\* the click on "Load from AviUtl2": lines 223-236, up to the await of fetch
AviClick ==
  /\ UserEvent
  /\ ~aviDisabled
  /\ IF isEncoding \/ isDecoding
     THEN /\ status' = "Busy... please wait"
          /\ UNCHANGED <<flags, points, images, models, cutDisabled, uploadVisible,
                         uiEnabled, aviDisabled, overlay, tasks, nLoads, history>>
     ELSE /\ resetImageState("Loading frame from AviUtl2...")
          /\ aviDisabled' = TRUE
          /\ aviTask' = [stage |-> "fetch", before |-> SessionState,
                          at |-> <<events + 1, nLoads>>]
          /\ UNCHANGED <<models, uiEnabled, encodeTasks, fileReads, nLoads>>
  /\ UNCHANGED <<exportTasks, pure>>

\* fetch resolved with response.ok: lines 237-241, up to the await of blob()
AviFetchDone ==
  /\ aviTask.stage = "fetch"
  /\ aviTask' = [aviTask EXCEPT !.stage = "blob"]
  /\ UNCHANGED <<flags, points, images, models, ui, overlay, decodeTasks, encodeTasks,
                 fileReads, counters, history>>
  /\ UNCHANGED <<exportTasks, pure>>

\* fetch rejected, or resolved with a non-2xx response (line 238 throws):
\* the catch and finally of lines 248-253
AviFetchFail ==
  /\ aviTask.stage = "fetch"
  /\ AviReturns(FALSE)
  /\ UNCHANGED <<flags, points, images, models, cutDisabled, uploadVisible, uiEnabled,
                 overlay, decodeTasks, encodeTasks, fileReads, counters, history>>
  /\ UNCHANGED <<exportTasks, pure>>

\* response.blob() rejected: the same catch and finally
AviBlobFail ==
  /\ aviTask.stage = "blob"
  /\ AviReturns(FALSE)
  /\ UNCHANGED <<flags, points, images, models, cutDisabled, uploadVisible, uiEnabled,
                 overlay, decodeTasks, encodeTasks, fileReads, counters, history>>
  /\ UNCHANGED <<exportTasks, pure>>

\* response.blob() resolved: lines 241-245 call encode(objectUrl); when encode()
\* returns at its busy gate the await resolves at once and line 247 runs
AviBlobDone ==
  /\ aviTask.stage = "blob"
  /\ IF isEncoding
     THEN /\ AviReturns(TRUE)
          /\ UNCHANGED <<isEncoding, encodeTasks, nLoads>>
     ELSE /\ encode("avi")
          /\ aviTask' = [aviTask EXCEPT !.stage = "encode"]
          /\ UNCHANGED aviDisabled
  /\ UNCHANGED <<isDecoding, decodePending, points, images, models, cutDisabled,
                 uploadVisible, uiEnabled, overlay, decodeTasks, fileReads,
                 events, budget, history>>
  /\ UNCHANGED <<exportTasks, pure>>

(* ------------------------------ models -------------------------------- *)
\* the model select's change handler (lines 280-286) with the new value key:
\* resetImageState(), then loadCurrentModelIfNeeded().  A key not in the cache
\* starts to load; the await of line 72 is on the cached promises, so a key
\* already loaded resumes the handler before any other event.  (The loads are
\* taken to succeed: model loading is outside the session engine.)
ModelChange(key) ==
  /\ UserEvent
  /\ key \in ModelKeys /\ key # currentModelKey
  /\ resetImageState(IF modelCache[key] = "ready" THEN "Ready" ELSE "Loading model...")
  /\ currentModelKey' = key
  /\ modelCache' = IF modelCache[key] = "none"
                   THEN [modelCache EXCEPT ![key] = "loading"]
                   ELSE modelCache
  /\ model' = IF modelCache[key] = "ready" THEN key ELSE model
  /\ UNCHANGED <<uiEnabled, aviDisabled, encodeTasks, aviTask, fileReads, nLoads>>
  /\ UNCHANGED <<exportTasks, pure>>

\* the promises of key resolved: every function awaiting them at line 72
\* assigns model and processor and returns; the handler goes on to line 286,
\* the module's first load to lines 413-419
ModelLoadDone(key) ==
  /\ modelCache[key] = "loading"
  /\ modelCache' = [modelCache EXCEPT ![key] = "ready"]
  /\ model' = key
  /\ status' = "Ready"
  /\ uiEnabled' = TRUE
  /\ aviDisabled' = IF uiEnabled THEN aviDisabled ELSE FALSE
  /\ UNCHANGED <<flags, points, images, currentModelKey, cutDisabled,
                 uploadVisible, overlay, tasks, counters, history>>
  /\ UNCHANGED <<exportTasks, pure>>

(* ------------------------- the cut button ----------------------------- *)
\* the cut-out drawn by lines 356-379: the overlay's pixels, the opaque ones
\* coloured from the source image
CutOut == [mask |-> overlay, source |-> imageInput]

\* the export started by a click, suspended at convertToBlob (line 382)
ExportTask ==
  [id |-> Cardinality(exportTasks) + 1, stage |-> "blob", blob |-> CutOut,
   saved |-> <<>>, body |-> <<>>]

\* the cut button's click handler up to its first await; line 367 throws a
\* TypeError when imageInput is null
CutClick ==
  /\ UserEvent
  /\ ~cutDisabled
  /\ exportTasks' = IF imageInput = NoImage
                    THEN exportTasks
                    ELSE exportTasks \cup {ExportTask}
  /\ UNCHANGED <<flags, points, images, models, ui, overlay, tasks, nLoads, history, pure>>

\* a download that never happens
Saved_Never(blob) == <<>>

\* (A) lines 385-389: the click on the link saves the blob as image.png
Saved(blob) == <<blob>>

\* convertToBlob resolved: lines 382-394, the download and the POST of the
\* same blob, up to the await of fetch
ExportBlobDone(x) ==
  /\ x \in exportTasks /\ x.stage = "blob"
  /\ exportTasks' = (exportTasks \ {x}) \cup
       {[x EXCEPT !.stage = "upload", !.saved = Saved(x.blob), !.body = <<x.blob>>]}
  /\ status' = "Sending mask to AviUtl2..."
  /\ UNCHANGED <<flags, points, images, models, cutDisabled, uploadVisible, uiEnabled,
                 aviDisabled, overlay, tasks, counters, history, pure>>

\* convertToBlob rejected: the handler rejects at line 382
ExportBlobFail(x) ==
  /\ x \in exportTasks /\ x.stage = "blob"
  /\ exportTasks' = (exportTasks \ {x}) \cup {[x EXCEPT !.stage = "aborted"]}
  /\ UNCHANGED <<flags, points, images, models, ui, overlay, tasks, counters, history, pure>>

\* fetch resolved with res.ok: line 404
UploadDone(x) ==
  /\ x \in exportTasks /\ x.stage = "upload"
  /\ exportTasks' = (exportTasks \ {x}) \cup {[x EXCEPT !.stage = "sent"]}
  /\ status' = "Mask sent to AviUtl2"
  /\ UNCHANGED <<flags, points, images, models, cutDisabled, uploadVisible, uiEnabled,
                 aviDisabled, overlay, tasks, counters, history, pure>>

\* fetch rejected, or resolved with a non-2xx response (line 402 throws):
\* the catch of lines 405-408
UploadFail(x) ==
  /\ x \in exportTasks /\ x.stage = "upload"
  /\ exportTasks' = (exportTasks \ {x}) \cup {[x EXCEPT !.stage = "failed"]}
  /\ status' = "Failed to send mask to AviUtl2"
  /\ UNCHANGED <<flags, points, images, models, cutDisabled, uploadVisible, uiEnabled,
                 aviDisabled, overlay, tasks, counters, history, pure>>

(* --------------------------- specification ---------------------------- *)
Next ==
  \/ clearPointsAndMask
  \/ ResetClick
  \/ \E b \in Buttons, p \in Positions : MouseDown(b, p)
  \/ \E p \in Positions : MouseMove(p)
  \/ \E t \in decodeTasks : DecodeModelDone(t)
  \/ \E t \in decodeTasks : DecodeModelFail(t)
  \/ \E t \in decodeTasks : DecodePostDone(t)
  \/ \E t \in decodeTasks : DecodePostFail(t)
  \/ ExampleClick
  \/ FileChange
  \/ FileReadDone
  \/ \E e \in encodeTasks : EncodeFromURLDone(e)
  \/ \E e \in encodeTasks : EncodeProcessorDone(e)
  \/ \E e \in encodeTasks : EncodeEmbedDone(e)
  \/ \E e \in encodeTasks : EncodeFail(e)
  \/ AviClick
  \/ AviFetchDone
  \/ AviFetchFail
  \/ AviBlobDone
  \/ AviBlobFail
  \/ \E k \in ModelKeys : ModelChange(k)
  \/ \E k \in ModelKeys : ModelLoadDone(k)
  \/ CutClick
  \/ \E x \in exportTasks : ExportBlobDone(x)
  \/ \E x \in exportTasks : ExportBlobFail(x)
  \/ \E x \in exportTasks : UploadDone(x)
  \/ \E x \in exportTasks : UploadFail(x)

Spec == Init /\ [][Next]_vars

\* the same program with one more user event in the run
InitDeep == Start(MaxEvents + 1) /\ NoLoops

SpecDeep == InitDeep /\ [][Next]_vars


(* ------------------- the scan for the best mask ----------------------- *)
\* iou_scores.data: a non-empty list of scores
ScoreLists == UNION {[1..n -> 0..MaxScore] : n \in 1..MaxMasks}

\* a scan that lets an equal score replace the best
Better_OrEqual(a, b) == a >= b

\* line 139: scores[i] > scores[bestIndex]
Better(a, b) == a > b

\* updateMaskOverlay() is at line 138 with bestIndex = 0 and i = 1; the
\* indices are the source's, from 0
InitSelect ==
  /\ Start(0)
  /\ scores \in ScoreLists
  /\ bestIndex = 0 /\ scanIndex = 1
  /\ maskPixelData = <<>> /\ imagePixelData = <<>> /\ overlayPixelData = <<>>
  /\ pixelIndex = 0

\* one turn of the loop of lines 138-142
ScanStep ==
  /\ scanIndex < Len(scores)
  /\ bestIndex' = IF Better(scores[scanIndex + 1], scores[bestIndex + 1])
                  THEN scanIndex
                  ELSE bestIndex
  /\ scanIndex' = scanIndex + 1
  /\ UNCHANGED <<session, scores, cut>>

NextSelect == ScanStep

SpecSelect == InitSelect /\ [][NextSelect]_vars

(* ------------------------- the cut-out loop --------------------------- *)
\* the channel counts of imageInput: RGB and RGBA
Channels == {3, 4}
\* the values of a channel of the source image
SourceBytes == {10, 20}

\* a pixel of the overlay: the mask colour of lines 150-153, or transparent
OverlayPixel(opaque) == IF opaque THEN <<0, 114, 189, 255>> ELSE <<0, 0, 0, 0>>

\* getImageData(): the RGBA data of a canvas whose pixel p is opaque[p]
OverlayData(opaque) ==
  [k \in 1..(4 * Len(opaque)) |->
     OverlayPixel(opaque[((k - 1) \div 4) + 1])[((k - 1) % 4) + 1]]

\* the handler is at line 368 with i = 0: a canvas of n pixels, and a source
\* image of as many pixels with c channels
InitCut ==
  /\ Start(0)
  /\ scores = <<>> /\ bestIndex = 0 /\ scanIndex = 0
  /\ \E n \in 1..MaxPixels, c \in Channels :
       \E opaque \in [1..n -> BOOLEAN], data \in [1..(c * n) -> SourceBytes] :
         /\ maskPixelData = OverlayData(opaque)
         /\ overlayPixelData = OverlayData(opaque)
         /\ imagePixelData = data
  /\ pixelIndex = 0

\* one turn of the loop of lines 368-378, for the pixel i = pixelIndex
CutPixel ==
  LET sourceOffset == 3 * pixelIndex
      targetOffset == 4 * pixelIndex
  IN /\ pixelIndex < Len(maskPixelData) \div 4
     /\ maskPixelData' =
          IF maskPixelData[targetOffset + 3 + 1] > 0
          THEN [k \in 1..Len(maskPixelData) |->
                  IF k \in (targetOffset + 1)..(targetOffset + 3)
                  THEN imagePixelData[sourceOffset + (k - targetOffset)]
                  ELSE maskPixelData[k]]
          ELSE maskPixelData
     /\ pixelIndex' = pixelIndex + 1
     /\ UNCHANGED <<session, select, imagePixelData, overlayPixelData>>

NextCut == CutPixel

SpecCut == InitCut /\ [][NextCut]_vars

(* ------------------------------- claims ------------------------------- *)
\* the inference calls of decode() in flight: awaited at line 98
InferenceInFlight == {t \in decodeTasks : t.stage = "model"}

\* this step dispatches an inference call: a call requested now is in flight
Dispatched == \E t \in decodeTasks' \ decodeTasks : t.stage = "model" /\ t.age = "new"

\* no decode is running or owed
Drained == ~isDecoding /\ ~decodePending

\* C1: in every reachable state at most one decode inference call (the
\* awaited model(...) of decode()) is in flight.
C1_AtMostOneInference == Cardinality(InferenceInFlight) <= 1

\* C2: latest-wins.  In a session that began with no decode call in flight,
\* once a decode has been requested and the pipeline has drained (isDecoding
\* and decodePending both false), the last mask drawn was computed from the
\* point list as it stood at the last decode() request.
C2_LatestWins ==
  (cleanSession /\ Drained /\ lastRequested # NullPoints)
    => lastRendered = lastRequested

\* C2's case: the pipeline drained after a request that was folded into a
\* rerun, and the overlay shows the mask of the last request
C2_Witness ==
  /\ cleanSession /\ Drained /\ folded
  /\ lastRequested # NullPoints
  /\ lastRendered = lastRequested
  /\ overlay.points = lastRequested

\* C3: a step in which the inference call or the mask post-processing of
\* decode() fails leaves isDecoding false.
C3_FailureReleasesBusy ==
  [][(\E t \in decodeTasks : DecodeModelFail(t) \/ DecodePostFail(t))
       => ~isDecoding']_vars

\* C4: no decode inference call is ever dispatched while imageEmbeddings is
\* null: every call in flight was given an embedding, also after a reset
\* with a call in flight and a rerun owed.
C4_NoDispatchWithoutEmbedding == \A t \in decodeTasks : t.image # NoImage

\* C4's case: after a reset no embedding is present, the next image is
\* already processed, and a call dispatched before the reset is about to
\* finish and look for an owed rerun
C4_Witness ==
  /\ imageEmbeddings = NoImage
  /\ imageProcessed # NoImage
  /\ \E t \in decodeTasks : t.age = "stale" /\ t.stage = "post"

\* C5: no decode inference call is dispatched while an embedding
\* computation (a call of encode() past its busy gate) is in progress.
C5_NoDispatchDuringEncode == [][Dispatched => encodeTasks = {}]_vars

\* C6: in every reachable state at most one embedding computation (a call
\* of encode() past its busy gate) is in flight.
C6_AtMostOneEncode == Cardinality(encodeTasks) <= 1

\* C7: after clearPointsAndMask() the overlay stays fully transparent until
\* a decode requested after the clear completes; a decode in flight at the
\* clear does not repaint it.
C7_ClearedOverlayStaysClear == clearActive => overlay = ClearOverlay

\* C8: after resetImageState() no mask of a decode dispatched before the
\* reset is drawn on the overlay.
C8_NoStaleRender == overlay.age # "stale"

\* nothing but loadFromAviUtl2() is running, and no user event and no image
\* load has happened since its click
AviAlone ==
  /\ aviTask.at = <<events, nLoads>>
  /\ decodeTasks = {} /\ encodeTasks = {} /\ fileReads = 0

\* C9: a step in which the frame fetch of loadFromAviUtl2() fails, the load
\* having been requested with an embedding present and nothing else going
\* on since the click, leaves the session state as it was when the load was
\* requested.
C9_FailedLoadKeepsSession ==
  [][(AviFetchFail /\ AviAlone /\ aviTask.before[3] # NoImage)
       => SessionState' = aviTask.before]_vars

\* C10: a step in which an awaited call of encode() fails leaves the
\* session with no embedding.
C10_FailedEmbeddingLeavesNone ==
  [][(\E e \in encodeTasks : EncodeFail(e)) => imageEmbeddings' = NoImage]_vars

\* C11: every export whose image was encoded has saved it locally exactly
\* once and posted the same blob, whether the upload is still awaited, has
\* succeeded or has failed.
C11_SinksAgree ==
  \A x \in exportTasks :
    x.stage \in {"upload", "sent", "failed"}
      => x.saved = <<x.blob>> /\ x.body = x.saved

\* C11's case: an export whose upload failed, with its one local download
C11_Witness ==
  \E x \in exportTasks :
    x.stage = "failed" /\ x.saved = <<x.blob>> /\ x.body = <<x.blob>>

\* C12: in every reachable state the cut button is enabled if and only if
\* lastPoints holds at least one point, in hover mode and in multi-point mode.
C12_ExportEnabledIffPoints ==
  (~cutDisabled) <=> (lastPoints # NullPoints /\ Len(lastPoints) >= 1)

\* a handler that calls resetImageState() or clearPointsAndMask()
ClearOrReset ==
  clearPointsAndMask \/ ResetClick \/ AviClick \/ \E k \in ModelKeys : ModelChange(k)

\* C13: a step taken in multi-point mode either keeps the mode, the point
\* list and the decode requests as they are (a mousemove among them), or is
\* a click that appends one point, labelled 1 for the left button and 0 for
\* the right, and calls decode() on the longer list, or is a clear or a
\* reset, which alone leave the mode.
C13_MultiPointMode ==
  [][isMultiMaskMode =>
       \/ /\ isMultiMaskMode'
          /\ lastPoints' = lastPoints
          /\ lastRequested' = lastRequested
       \/ \E p \in Positions :
            /\ MouseDown(0, p)
            /\ isMultiMaskMode'
            /\ lastPoints' = Append(lastPoints, [position |-> p, label |-> 1])
            /\ lastRequested' = lastPoints' /\ isDecoding'
       \/ \E p \in Positions :
            /\ MouseDown(2, p)
            /\ isMultiMaskMode'
            /\ lastPoints' = Append(lastPoints, [position |-> p, label |-> 0])
            /\ lastRequested' = lastPoints' /\ isDecoding'
       \/ /\ ClearOrReset
          /\ ~isMultiMaskMode' /\ lastPoints' = NullPoints]_vars

\* C13's case: multi-point mode after a left click and a right click
C13_Witness ==
  /\ isMultiMaskMode
  /\ Len(lastPoints) = 2
  /\ lastPoints[1].label = 1 /\ lastPoints[2].label = 0
  /\ lastRequested = lastPoints

\* C14: when the scan of a non-empty score list is over, bestIndex is the
\* lowest index whose score is the maximum of the list: no score is greater,
\* and every earlier score is smaller.
C14_FirstMaximum ==
  (scores # <<>> /\ scanIndex >= Len(scores))
    => /\ \A i \in 1..Len(scores) : scores[i] <= scores[bestIndex + 1]
       /\ \A i \in 1..bestIndex : scores[i] < scores[bestIndex + 1]

\* C14's case: the maximum is tied between the last two of three candidates
\* and the scan has chosen index 1
C14_Witness ==
  /\ scores = <<1, 2, 2>>
  /\ scanIndex = 3
  /\ bestIndex = 1

\* the pixels of the canvas, and the channels of the source image
CutPixels == Len(overlayPixelData) \div 4
SourceChannels == Len(imagePixelData) \div CutPixels

\* C15: when the cut loop is over, every pixel keeps the overlay's alpha
\* and, where that alpha is nonzero, has the three colour channels of the
\* same pixel of the source image, whatever the image's channel count.
C15_CutKeepsSourceColour ==
  (overlayPixelData # <<>> /\ pixelIndex = CutPixels)
    => \A p \in 0..(CutPixels - 1) :
         /\ maskPixelData[4 * p + 4] = overlayPixelData[4 * p + 4]
         /\ overlayPixelData[4 * p + 4] > 0
              => \A j \in 1..3 :
                   maskPixelData[4 * p + j] = imagePixelData[SourceChannels * p + j]

\* the inference calls this step dispatches
NewInference == {t \in decodeTasks' \ decodeTasks : t.stage = "model"}

\* C16: when a decode completes, the requests that arrived while it was in
\* flight (decodePending) cause exactly one further inference call, and
\* none when there were none.
C16_SingleSlot ==
  [][\A t \in decodeTasks :
       DecodePostDone(t)
         => Cardinality(NewInference) = IF decodePending THEN 1 ELSE 0]_vars

\* C17: a load re-triggered when no embedding computation is in flight
\* (also after one has failed) starts one: encode() is not held at its busy
\* gate by an isEncoding left true.
C17_RetriggerStartsEncode ==
  [][((ExampleClick \/ FileReadDone) /\ encodeTasks = {}) => encodeTasks' # {}]_vars

\* C18: whenever an embedding is present, the source image and the
\* processed image are present too and all three are of the same image load.
C18_SessionDataOfOneLoad ==
  imageEmbeddings # NoImage
    => imageInput = imageEmbeddings /\ imageProcessed = imageEmbeddings

\* decode() passes its busy gate in this step: called by a handler while
\* isDecoding is false, or rerun by a call that ends with decodePending set
PassesGate ==
  \/ /\ ~isDecoding
     /\ \/ \E b \in Buttons, p \in Positions : MouseDown(b, p)
        \/ \E p \in Positions : MouseMove(p)
  \/ /\ decodePending
     /\ \E t \in decodeTasks : DecodePostDone(t)

\* C19: whenever decode() passes the busy gate, the lastPoints it reads is a
\* non-empty list, never null.
C19_PointsAtDispatch ==
  [][PassesGate => (lastPoints' # NullPoints /\ Len(lastPoints') >= 1)]_vars

\* loadFromAviUtl2() reaches line 247 in this step
AviSucceeds == aviTask.stage # "idle" /\ aviTask'.stage = "idle" /\ status' = "Ready"

\* C20: when loadFromAviUtl2() finishes on its success path, the embedding
\* present is the one its own encode() computed from the fetched frame, and
\* no embedding computation is in progress.
C20_ReadyMeansFrameEmbedded ==
  [][AviSucceeds
       => /\ \E e \in encodeTasks : e.caller = "avi" /\ imageEmbeddings' = e.load
          /\ encodeTasks' = {} /\ ~isEncoding']_vars

====
